---- MODULE Spec2Model ----
(***************************************************************************)
(* The 'snip' object of python/ultisnips.py: IndentUtil (the spacing       *)
(* properties read from Vim) and SnippetUtil (indentation, return value,   *)
(* change flag, snapshots).  Python strings are sequences of one-character *)
(* strings.                                                                *)
(***************************************************************************)
EXTENDS Integers, Sequences, FiniteSets, TLC

VARIABLES
    hostShiftwidth,   \* Vim: value of exists('*shiftwidth') ? shiftwidth() : &shiftwidth
    hostExpandtab,    \* Vim: &expandtab
    hostTabstop,      \* Vim: &tabstop
    shiftwidth,       \* IndentUtil.shiftwidth
    _expandtab,       \* IndentUtil._expandtab
    _tabstop,         \* IndentUtil._tabstop
    _initial_indent,  \* SnippetUtil._initial_indent
    indent,           \* SnippetUtil.indent
    _rv,              \* SnippetUtil._rv
    _changed,         \* SnippetUtil._changed
    _cur,             \* SnippetUtil._cur
    _visual,          \* SnippetUtil._visual
    _start,           \* SnippetUtil._start
    _end,             \* SnippetUtil._end
    ctor,             \* the arguments SnippetUtil(...) was constructed with
    call,             \* the last operation called, with its arguments
    ret,              \* how that call ended: what it returned or that it raised
    pre,              \* indent, _rv and _changed when that call was entered
    written,          \* the rv setter has run since the last _reset
    atReset           \* Vim's option values when IndentUtil.reset last ran

vars == <<hostShiftwidth, hostExpandtab, hostTabstop, shiftwidth, _expandtab,
          _tabstop, _initial_indent, indent, _rv, _changed, _cur, _visual,
          _start, _end, ctor, call, ret, pre, written, atReset>>

hostVars == <<hostShiftwidth, hostExpandtab, hostTabstop>>
indVars == <<shiftwidth, _expandtab, _tabstop, atReset>>
HostNow == [sw |-> hostShiftwidth, ts |-> hostTabstop, et |-> hostExpandtab]
frozenVars == <<_initial_indent, _visual, _start, _end, ctor>>

\* Bounds.
MaxShiftwidth == 2
MaxTabstop == 2
MaxIndent == 2
MaxOut == 3
MaxAmount == 2
MaxLen == 3
MaxSpaces == 9
MaxConvTabstop == 4

SP == " "
TAB == "\t"
NL == "\n"

\* Inputs.
Amounts == -1..MaxAmount
Lines == {<<>>, <<"x">>}
IndentArgs == {<<TAB>>}
Curs == {<<"x">>}
Positions == {<<0, 0>>, <<1, 2>>, <<1, 5>>}
\* The option values a buffer can have: every shift width, with and without
\* expandtab, the tab stop set along with the shift width.
HostOptions ==
    { [sw |-> n, ts |-> 1 + (n % MaxTabstop), et |-> e] :
        n \in 0..MaxShiftwidth, e \in BOOLEAN }
\* Indentation text: every string of tabs and spaces up to MaxLen characters.
IndentStrings == UNION {[1..n -> {SP, TAB}] : n \in 0..MaxLen}
\* The settings IndentUtil can hold: every shift width, tab stop and expandtab.
ConvOptions ==
    [sw : 0..MaxShiftwidth, ts : 1..MaxConvTabstop, et : BOOLEAN]
Constructions ==
    { [initial_indent |-> <<>>, vmode |-> "v", vtext |-> <<>>,
       start |-> <<0, 0>>, end |-> <<0, 0>>],
      [initial_indent |-> <<SP, SP>>, vmode |-> "V", vtext |-> <<"s">>,
       start |-> <<1, 2>>, end |-> <<1, 5>>] }

\* Python: s * n for a string s and an int n (empty when n <= 0).
PyMul(s, n) ==
    IF n <= 0 \/ Len(s) = 0 THEN <<>>
    ELSE [i \in 1..(Len(s) * n) |-> s[((i - 1) % Len(s)) + 1]]

\* A slice that does not stop at the start of the string.
PySliceTo_unclamped(s, by) ==
    IF by >= 0
    THEN SubSeq(s, 1, IF by < Len(s) THEN by ELSE Len(s))
    ELSE IF Len(s) + by >= 0 THEN SubSeq(s, 1, Len(s) + by) ELSE s

\* Python: s[:by].
PySliceTo(s, by) ==
    IF by >= 0
    THEN SubSeq(s, 1, IF by < Len(s) THEN by ELSE Len(s))
    ELSE SubSeq(s, 1, IF Len(s) + by > 0 THEN Len(s) + by ELSE 0)

Digits == <<"0", "1", "2", "3", "4", "5", "6", "7", "8", "9">>

\* Vim hands a number to Python as its decimal string.
RECURSIVE VimNr2Str(_)
VimNr2Str(n) ==
    IF n < 10 THEN <<Digits[n + 1]>>
    ELSE Append(VimNr2Str(n \div 10), Digits[(n % 10) + 1])

\* Python: int(s) for a decimal string s.
RECURSIVE PyInt(_)
PyInt(s) ==
    IF Len(s) = 0 THEN 0
    ELSE 10 * PyInt(SubSeq(s, 1, Len(s) - 1))
         + (CHOOSE d \in 0..9 : Digits[d + 1] = s[Len(s)])

\* IndentUtil.reset: the three values it stores, read from Vim now.
IndReset_shiftwidth == PyInt(VimNr2Str(hostShiftwidth))
IndReset_expandtab == (VimNr2Str(IF hostExpandtab THEN 1 ELSE 0) = <<"1">>)
IndReset_tabstop == PyInt(VimNr2Str(hostTabstop))

\* Python: s.expandtabs(tabsize), from position i on, at column col.
RECURSIVE expandtabs_from(_, _, _, _)
expandtabs_from(s, i, col, tabsize) ==
    IF i > Len(s) THEN <<>>
    ELSE IF s[i] = TAB
    THEN LET n == IF tabsize > 0 THEN tabsize - (col % tabsize) ELSE 0
         IN  PyMul(<<SP>>, n) \o expandtabs_from(s, i + 1, col + n, tabsize)
    ELSE IF s[i] = NL
    THEN <<NL>> \o expandtabs_from(s, i + 1, 0, tabsize)
    ELSE <<s[i]>> \o expandtabs_from(s, i + 1, col + 1, tabsize)

\* An expansion that gives every tab the full tab size, wherever it stands.
expandtabs_flat(s, tabsize) ==
    IF s = <<>> THEN <<>>
    ELSE LET F[i \in 0..Len(s)] ==
                 IF i = 0 THEN <<>>
                 ELSE F[i - 1] \o (IF s[i] = TAB THEN PyMul(<<SP>>, tabsize)
                                   ELSE <<s[i]>>)
         IN  F[Len(s)]

expandtabs(s, tabsize) == expandtabs_from(s, 1, 0, tabsize)

\* Python: s.rstrip(ch) for a single character ch.
RECURSIVE rstrip(_, _)
rstrip(s, ch) ==
    IF Len(s) > 0 /\ s[Len(s)] = ch
    THEN rstrip(SubSeq(s, 1, Len(s) - 1), ch)
    ELSE s

\* Python: s.replace(old, new).
RECURSIVE replace(_, _, _)
replace(s, old, new) ==
    IF Len(old) = 0
    THEN IF Len(s) = 0 THEN new
         ELSE (new \o <<s[1]>>) \o replace(Tail(s), old, new)
    ELSE IF Len(s) < Len(old) THEN s
    ELSE IF SubSeq(s, 1, Len(old)) = old
    THEN new \o replace(SubSeq(s, Len(old) + 1, Len(s)), old, new)
    ELSE <<s[1]>> \o replace(Tail(s), old, new)

\* IndentUtil.indent_to_spaces(indent) with self._tabstop = ts.
indent_to_spaces(ind, ts) ==
    LET expanded == expandtabs(ind, ts)
        right == PyMul(<<SP>>, Len(expanded) - Len(rstrip(expanded, SP)))
        nospace == replace(expanded, <<SP>>, <<>>)
    IN  replace(nospace, <<TAB>>, PyMul(<<SP>>, ts)) \o right

\* A spaces_to_indent that tests expandtab the wrong way round.
spaces_to_indent_inverted(ind, ts, et) ==
    IF et THEN replace(ind, PyMul(<<SP>>, ts), <<TAB>>) ELSE ind

\* A spaces_to_indent that folds shiftwidth spaces, not tabstop spaces, into
\* a tab.
spaces_to_indent_by_shiftwidth(ind, ts, et) ==
    IF ~et THEN replace(ind, PyMul(<<SP>>, shiftwidth), <<TAB>>) ELSE ind

\* IndentUtil.spaces_to_indent(indent) with self._tabstop = ts and
\* self._expandtab = et.
spaces_to_indent(ind, ts, et) ==
    IF ~et THEN replace(ind, PyMul(<<SP>>, ts), <<TAB>>) ELSE ind

\* An ntabs_to_proper_indent that counts tab stops, not shift widths.
ntabs_by_tabstop(ntabs, sw, ts, et) ==
    spaces_to_indent(indent_to_spaces(PyMul(<<SP>>, ntabs * ts), ts), ts, et)

\* IndentUtil.ntabs_to_proper_indent(ntabs) with self.shiftwidth = sw.
ntabs_to_proper_indent(ntabs, sw, ts, et) ==
    spaces_to_indent(indent_to_spaces(PyMul(<<SP>>, ntabs * sw), ts), ts, et)

\* The two steps every caller chains (ntabs_to_proper_indent does):
\* spaces_to_indent(indent_to_spaces(indent)).
normalize(ind, ts, et) == spaces_to_indent(indent_to_spaces(ind, ts), ts, et)

\* SnippetUtil.mkline(line, indent).
mkline(line, ind) == ind \o line

\* The default of mkline's indent parameter.
mkline_default_indent == <<>>

\* What vim.eval can do: hand back a string or raise vim.error.
VimValue(s) == [error |-> FALSE, val |-> s]
VimError == [error |-> TRUE, val |-> <<>>]

None == [kind |-> "None", val |-> <<>>]
Str(s) == [kind |-> "str", val |-> s]
Self == [kind |-> "self", val |-> <<>>]
Raised == [kind |-> "raise", val |-> <<>>]
NoArgs == [op |-> "", amount |-> 0, text |-> <<>>, passed |-> FALSE, ind |-> <<>>,
           exists |-> VimError, eval |-> VimError, default |-> None]
Entry == [indent |-> indent, rv |-> _rv, changed |-> _changed]

\* SnippetUtil.__init__: the value it gives self._visual.
init_visual(args) == [mode |-> "v", text |-> args.vtext]

\* SnippetUtil.__init__: the value it gives self._initial_indent.
init_initial_indent(args) == <<>>

\* State right after SnippetUtil(_initial_indent, _vmode, vtext, start, end).
Init ==
    /\ \E o \in HostOptions :
          /\ hostShiftwidth = o.sw
          /\ hostTabstop = o.ts
          /\ hostExpandtab = o.et
    /\ ctor \in Constructions
    /\ shiftwidth = IndReset_shiftwidth
    /\ _expandtab = IndReset_expandtab
    /\ _tabstop = IndReset_tabstop
    /\ _visual = init_visual(ctor)
    /\ _initial_indent = init_initial_indent(ctor)
    /\ _cur = <<>>
    /\ _rv = <<>>
    /\ _changed = FALSE
    /\ indent = init_initial_indent(ctor)
    /\ _start = ctor.start
    /\ _end = ctor.end
    /\ call = [NoArgs EXCEPT !.op = "__init__"]
    /\ ret = None
    /\ pre = [indent |-> <<>>, rv |-> <<>>, changed |-> FALSE]
    /\ written = FALSE
    /\ atReset = HostNow

\* The user changes the editor options between two calls.
HostSet ==
    /\ \E o \in HostOptions :
          /\ <<o.sw, o.ts, o.et>> # <<hostShiftwidth, hostTabstop, hostExpandtab>>
          /\ hostShiftwidth' = o.sw
          /\ hostTabstop' = o.ts
          /\ hostExpandtab' = o.et
    /\ call' = [NoArgs EXCEPT !.op = ":set"]
    /\ ret' = None
    /\ pre' = Entry
    /\ UNCHANGED <<indVars, frozenVars, indent, _rv, _changed, _cur, written>>

\* A reset_indent that keeps the shifts made so far.
reset_indent_keeps_shifts == indent

\* SnippetUtil.reset_indent: the value it gives self.indent.
reset_indent == _initial_indent

\* SnippetUtil._reset(cur).
Reset ==
    /\ \E cur \in Curs :
          /\ _cur' = cur
          /\ call' = [NoArgs EXCEPT !.op = "_reset", !.text = cur]
    /\ shiftwidth' = IndReset_shiftwidth
    /\ _expandtab' = IndReset_expandtab
    /\ _tabstop' = IndReset_tabstop
    /\ _rv' = <<>>
    /\ _changed' = FALSE
    /\ indent' = reset_indent
    /\ ret' = None
    /\ pre' = Entry
    /\ written' = FALSE
    /\ atReset' = HostNow
    /\ UNCHANGED <<hostVars, frozenVars>>


\* A shift that asks Vim for the shift width each time.
shift_live(amount) == indent \o PyMul(PyMul(<<SP>>, hostShiftwidth), amount)

\* A shift that takes a negative amount as an outdent.
shift_signed(amount) ==
    IF amount >= 0 THEN indent \o PyMul(PyMul(<<SP>>, shiftwidth), amount)
    ELSE PySliceTo(indent, Len(indent) + shiftwidth * amount)

\* SnippetUtil.shift(amount): the value it gives self.indent.
shift(amount) == indent \o PyMul(PyMul(<<SP>>, shiftwidth), amount)

\* An unshift that removes amount characters, whatever the shift width.
unshift_characters(amount) == PySliceTo(indent, -amount)

\* An unshift that takes a negative amount as a shift.
unshift_negative_shifts(amount) ==
    IF amount < 0 THEN indent \o PyMul(PyMul(<<SP>>, shiftwidth), -amount)
    ELSE PySliceTo(indent, (-shiftwidth) * amount)

\* SnippetUtil.unshift(amount): the value it gives self.indent.
unshift(amount) == PySliceTo(indent, (-shiftwidth) * amount)

\* A setter that flags a change only when the value differs.
rv_setter_if_differs(st, value) ==
    [rv |-> value, changed |-> st.changed \/ value # st.rv]

\* A setter whose flag says whether rv holds text.
rv_setter_nonempty(st, value) == [rv |-> value, changed |-> value # <<>>]

\* The rv setter, from the fields st = [rv, changed]: the fields after it.
rv_setter(st, value) == [rv |-> value, changed |-> TRUE]

\* An append that leaves out the line break.
add_without_newline(value) ==
    rv_setter([rv |-> _rv, changed |-> _changed],
              _rv \o mkline(value, mkline_default_indent))

\* SnippetUtil.__add__(value): two uses of the rv setter.
add(value) ==
    LET nl == rv_setter([rv |-> _rv, changed |-> _changed], _rv \o <<NL>>)
    IN  rv_setter(nl, nl.rv \o mkline(value, mkline_default_indent))

\* SnippetUtil.opt(option, default), given what Vim does on exists('option')
\* and on the evaluation of option.
opt(exists, eval, default) ==
    IF exists.error THEN Raised
    ELSE IF exists.val = <<"1">> /\ ~eval.error THEN Str(eval.val)
    ELSE default

\* A shift that also counts as a write of rv.
ShiftCall_marks_changed ==
    /\ \E amount \in Amounts :
          /\ Len(shift(amount)) <= MaxIndent
          /\ indent' = shift(amount)
          /\ call' = [NoArgs EXCEPT !.op = "shift", !.amount = amount]
    /\ _changed' = TRUE
    /\ ret' = None
    /\ pre' = Entry
    /\ UNCHANGED <<hostVars, indVars, frozenVars, _rv, _cur, written>>

ShiftCall ==
    /\ \E amount \in Amounts :
          /\ Len(shift(amount)) <= MaxIndent
          /\ indent' = shift(amount)
          /\ call' = [NoArgs EXCEPT !.op = "shift", !.amount = amount]
    /\ ret' = None
    /\ pre' = Entry
    /\ UNCHANGED <<hostVars, indVars, frozenVars, _rv, _changed, _cur, written>>

UnshiftCall ==
    /\ \E amount \in Amounts :
          /\ indent' = unshift(amount)
          /\ call' = [NoArgs EXCEPT !.op = "unshift", !.amount = amount]
    /\ ret' = None
    /\ pre' = Entry
    /\ UNCHANGED <<hostVars, indVars, frozenVars, _rv, _changed, _cur, written>>

\* SnippetUtil.__rshift__(other).
Rshift ==
    /\ \E other \in Amounts :
          /\ Len(shift(other)) <= MaxIndent
          /\ indent' = shift(other)
          /\ call' = [NoArgs EXCEPT !.op = "__rshift__", !.amount = other]
    /\ ret' = None
    /\ pre' = Entry
    /\ UNCHANGED <<hostVars, indVars, frozenVars, _rv, _changed, _cur, written>>

\* SnippetUtil.__lshift__(other).
Lshift ==
    /\ \E other \in Amounts :
          /\ indent' = unshift(other)
          /\ call' = [NoArgs EXCEPT !.op = "__lshift__", !.amount = other]
    /\ ret' = None
    /\ pre' = Entry
    /\ UNCHANGED <<hostVars, indVars, frozenVars, _rv, _changed, _cur, written>>

\* mkline(line) and mkline(line, indent).
MklineCall ==
    /\ \E line \in Lines, passed \in BOOLEAN, ind \in IndentArgs :
          /\ call' = [NoArgs EXCEPT !.op = "mkline", !.text = line,
                                    !.passed = passed, !.ind = ind]
          /\ ret' = Str(mkline(line, IF passed THEN ind ELSE mkline_default_indent))
    /\ pre' = Entry
    /\ UNCHANGED <<hostVars, indVars, frozenVars, indent, _rv, _changed, _cur,
                   written>>

\* snip._ind.ntabs_to_proper_indent(ntabs).
NtabsCall ==
    /\ \E ntabs \in Amounts :
          /\ call' = [NoArgs EXCEPT !.op = "ntabs_to_proper_indent",
                                    !.amount = ntabs]
          /\ ret' = Str(ntabs_to_proper_indent(ntabs, shiftwidth, _tabstop,
                                               _expandtab))
    /\ pre' = Entry
    /\ UNCHANGED <<hostVars, indVars, frozenVars, indent, _rv, _changed, _cur,
                   written>>

ResetIndentCall ==
    /\ indent' = reset_indent
    /\ call' = [NoArgs EXCEPT !.op = "reset_indent"]
    /\ ret' = None
    /\ pre' = Entry
    /\ UNCHANGED <<hostVars, indVars, frozenVars, _rv, _changed, _cur, written>>

\* snip.rv = value.
SetRv ==
    /\ \E value \in Lines :
          LET st == rv_setter([rv |-> _rv, changed |-> _changed], value)
          IN  /\ _rv' = st.rv
              /\ _changed' = st.changed
              /\ call' = [NoArgs EXCEPT !.op = "rv=", !.text = value]
    /\ written' = TRUE
    /\ ret' = None
    /\ pre' = Entry
    /\ UNCHANGED <<hostVars, indVars, frozenVars, indent, _cur>>

\* snip += value.
AddCall ==
    /\ \E value \in Lines :
          /\ Len(add(value).rv) <= MaxOut
          /\ _rv' = add(value).rv
          /\ _changed' = add(value).changed
          /\ call' = [NoArgs EXCEPT !.op = "__add__", !.text = value]
    /\ written' = TRUE
    /\ ret' = Self
    /\ pre' = Entry
    /\ UNCHANGED <<hostVars, indVars, frozenVars, indent, _cur>>

OptCall ==
    /\ \E exists \in {VimValue(<<"1">>), VimValue(<<"0">>), VimError},
          eval \in {VimValue(<<"o">>), VimError},
          default \in {Str(<<"f">>)} :
          /\ call' = [NoArgs EXCEPT !.op = "opt", !.exists = exists,
                                    !.eval = eval, !.default = default]
          /\ ret' = opt(exists, eval, default)
    /\ pre' = Entry
    /\ UNCHANGED <<hostVars, indVars, frozenVars, indent, _rv, _changed, _cur,
                   written>>

\* The properties rv, _rv_changed, v, snippet_start and snippet_end.
GetRv ==
    /\ call' = [NoArgs EXCEPT !.op = "rv"]
    /\ ret' = Str(_rv)
    /\ pre' = Entry
    /\ UNCHANGED <<hostVars, indVars, frozenVars, indent, _rv, _changed, _cur,
                   written>>

GetRvChanged ==
    /\ call' = [NoArgs EXCEPT !.op = "_rv_changed"]
    /\ ret' = [kind |-> "bool", val |-> _changed]
    /\ pre' = Entry
    /\ UNCHANGED <<hostVars, indVars, frozenVars, indent, _rv, _changed, _cur,
                   written>>

GetV ==
    /\ call' = [NoArgs EXCEPT !.op = "v"]
    /\ ret' = [kind |-> "visual", val |-> _visual]
    /\ pre' = Entry
    /\ UNCHANGED <<hostVars, indVars, frozenVars, indent, _rv, _changed, _cur,
                   written>>

GetSnippetStart ==
    /\ call' = [NoArgs EXCEPT !.op = "snippet_start"]
    /\ ret' = [kind |-> "pos", val |-> _start]
    /\ pre' = Entry
    /\ UNCHANGED <<hostVars, indVars, frozenVars, indent, _rv, _changed, _cur,
                   written>>

GetSnippetEnd ==
    /\ call' = [NoArgs EXCEPT !.op = "snippet_end"]
    /\ ret' = [kind |-> "pos", val |-> _end]
    /\ pre' = Entry
    /\ UNCHANGED <<hostVars, indVars, frozenVars, indent, _rv, _changed, _cur,
                   written>>

\* Python: a or b for a string a.
py_or(a, b) == IF a = <<>> THEN b ELSE a

\* The property fn: vim.eval('expand("%:t")') or ''.
GetFn ==
    /\ \E name \in {VimValue(<<"f">>), VimValue(<<>>)} :
          /\ call' = [NoArgs EXCEPT !.op = "fn", !.eval = name]
          /\ ret' = Str(py_or(name.val, <<>>))
    /\ pre' = Entry
    /\ UNCHANGED <<hostVars, indVars, frozenVars, indent, _rv, _changed, _cur,
                   written>>

\* The property basename: vim.eval('expand("%:t:r")') or ''.
GetBasename ==
    /\ \E name \in {VimValue(<<"b">>), VimValue(<<>>)} :
          /\ call' = [NoArgs EXCEPT !.op = "basename", !.eval = name]
          /\ ret' = Str(py_or(name.val, <<>>))
    /\ pre' = Entry
    /\ UNCHANGED <<hostVars, indVars, frozenVars, indent, _rv, _changed, _cur,
                   written>>

\* The property ft: self.opt('&filetype', '').
GetFt ==
    /\ \E exists \in {VimValue(<<"1">>), VimValue(<<"0">>), VimError},
          eval \in {VimValue(<<"t">>), VimError} :
          /\ call' = [NoArgs EXCEPT !.op = "ft", !.exists = exists,
                                    !.eval = eval, !.default = Str(<<>>)]
          /\ ret' = opt(exists, eval, Str(<<>>))
    /\ pre' = Entry
    /\ UNCHANGED <<hostVars, indVars, frozenVars, indent, _rv, _changed, _cur,
                   written>>

\* The properties c, p, context and buffer.
GetC ==
    /\ call' = [NoArgs EXCEPT !.op = "c"]
    /\ ret' = Str(<<>>)
    /\ pre' = Entry
    /\ UNCHANGED <<hostVars, indVars, frozenVars, indent, _rv, _changed, _cur,
                   written>>

GetP ==
    /\ call' = [NoArgs EXCEPT !.op = "p"]
    /\ ret' = [kind |-> "placeholder",
               val |-> [current_text |-> <<>>, start |-> 0, end |-> 0]]
    /\ pre' = Entry
    /\ UNCHANGED <<hostVars, indVars, frozenVars, indent, _rv, _changed, _cur,
                   written>>

GetContext ==
    /\ call' = [NoArgs EXCEPT !.op = "context"]
    /\ ret' = [kind |-> "bool", val |-> TRUE]
    /\ pre' = Entry
    /\ UNCHANGED <<hostVars, indVars, frozenVars, indent, _rv, _changed, _cur,
                   written>>

GetBuffer ==
    /\ call' = [NoArgs EXCEPT !.op = "buffer"]
    /\ ret' = [kind |-> "buffer", val |-> <<>>]
    /\ pre' = Entry
    /\ UNCHANGED <<hostVars, indVars, frozenVars, indent, _rv, _changed, _cur,
                   written>>

Next ==
    \/ HostSet
    \/ Reset
    \/ ShiftCall
    \/ UnshiftCall
    \/ Rshift
    \/ Lshift
    \/ MklineCall
    \/ NtabsCall
    \/ ResetIndentCall
    \/ SetRv
    \/ AddCall
    \/ OptCall
    \/ GetRv
    \/ GetRvChanged
    \/ GetV
    \/ GetSnippetStart
    \/ GetSnippetEnd
    \/ GetFn
    \/ GetBasename
    \/ GetFt
    \/ GetC
    \/ GetP
    \/ GetContext
    \/ GetBuffer

Spec == Init /\ [][Next]_vars

----------------------------------------------------------------------------
\* IndentUtil on its own: a new object under any settings, and calls of its
\* three conversions on any indentation text.
InitConv ==
    /\ \E o \in ConvOptions :
          /\ hostShiftwidth = o.sw
          /\ hostTabstop = o.ts
          /\ hostExpandtab = o.et
    /\ ctor \in Constructions
    /\ shiftwidth = IndReset_shiftwidth
    /\ _expandtab = IndReset_expandtab
    /\ _tabstop = IndReset_tabstop
    /\ _visual = init_visual(ctor)
    /\ _initial_indent = init_initial_indent(ctor)
    /\ _cur = <<>>
    /\ _rv = <<>>
    /\ _changed = FALSE
    /\ indent = init_initial_indent(ctor)
    /\ _start = ctor.start
    /\ _end = ctor.end
    /\ call = [NoArgs EXCEPT !.op = "__init__"]
    /\ ret = None
    /\ pre = [indent |-> <<>>, rv |-> <<>>, changed |-> FALSE]
    /\ written = FALSE
    /\ atReset = HostNow

\* snip._ind.indent_to_spaces(indent).
IndentToSpacesCall ==
    /\ \E x \in IndentStrings :
          /\ call' = [NoArgs EXCEPT !.op = "indent_to_spaces", !.text = x]
          /\ ret' = Str(indent_to_spaces(x, _tabstop))
    /\ pre' = Entry
    /\ UNCHANGED <<hostVars, indVars, frozenVars, indent, _rv, _changed, _cur,
                   written>>

\* snip._ind.spaces_to_indent(indent) on a string of spaces.
SpacesToIndentCall ==
    /\ \E m \in 0..MaxSpaces :
          /\ call' = [NoArgs EXCEPT !.op = "spaces_to_indent",
                                    !.text = PyMul(<<SP>>, m)]
          /\ ret' = Str(spaces_to_indent(PyMul(<<SP>>, m), _tabstop, _expandtab))
    /\ pre' = Entry
    /\ UNCHANGED <<hostVars, indVars, frozenVars, indent, _rv, _changed, _cur,
                   written>>

\* snip._ind.spaces_to_indent(snip._ind.indent_to_spaces(indent)).
NormalizeCall ==
    /\ \E x \in IndentStrings :
          /\ call' = [NoArgs EXCEPT !.op = "normalize", !.text = x]
          /\ ret' = Str(normalize(x, _tabstop, _expandtab))
    /\ pre' = Entry
    /\ UNCHANGED <<hostVars, indVars, frozenVars, indent, _rv, _changed, _cur,
                   written>>

NextConv ==
    \/ IndentToSpacesCall
    \/ SpacesToIndentCall
    \/ NormalizeCall
    \/ NtabsCall

SpecConv == InitConv /\ [][NextConv]_vars

----------------------------------------------------------------------------
\* C1: shift(amount) directly followed by unshift(amount), for any amount >= 0
\* (0 included), leaves indent exactly as it was before the shift.
C1_ShiftUnshiftRestores ==
    [][(/\ call.op = "shift"
        /\ call.amount >= 0
        /\ call'.op = "unshift"
        /\ call'.amount = call.amount) => indent' = pre.indent]_vars

\* C2: _changed is true exactly when the rv setter has run since the last
\* _reset; a new object has _changed false; an assignment of the value rv
\* already holds sets _changed all the same.
C2_ChangedIffWritten ==
    /\ _changed <=> written
    /\ call.op = "__init__" => ~_changed
    /\ (call.op = "rv=" /\ call.text = pre.rv) => _changed

C2_Witness ==
    /\ call.op = "rv="
    /\ call.text = pre.rv
    /\ ~pre.changed
    /\ _changed

\* C3: mkline(line) without an indent argument returns the current indent
\* followed by line.
C3_MklineUsesCurrentIndent ==
    (call.op = "mkline" /\ ~call.passed) => ret = Str(indent \o call.text)

\* C4: snip += line makes rv the old rv, a line break and mkline(line), sets
\* _changed and returns the object itself.
C4_AddAppendsLine ==
    call.op = "__add__" =>
        /\ _rv = (pre.rv \o <<NL>>) \o mkline(call.text, mkline_default_indent)
        /\ _changed
        /\ ret = Self

C4_Witness ==
    /\ call.op = "__add__"
    /\ pre.rv # <<>>
    /\ call.text # <<>>
    /\ Len(_rv) = Len(pre.rv) + 2

\* C5: the indentation prefix handed to the constructor is _initial_indent
\* for good, and indent equals it right after construction, after every
\* _reset and after every reset_indent.
C5_InitialIndentIsConstructorPrefix ==
    /\ _initial_indent = ctor.initial_indent
    /\ call.op \in {"__init__", "_reset", "reset_indent"} =>
           indent = ctor.initial_indent

\* C6: whatever rv, _changed and indent were, _reset leaves rv empty,
\* _changed false and indent equal to _initial_indent.
C6_ResetClears ==
    call.op = "_reset" =>
        /\ _rv = <<>>
        /\ ~_changed
        /\ indent = _initial_indent

C6_Witness ==
    /\ call.op = "_reset"
    /\ pre.rv # <<>>
    /\ pre.changed
    /\ pre.indent # _initial_indent
    /\ _rv = <<>>

\* C7: the three settings are those Vim had when reset last ran, however
\* Vim's options moved since: right after construction and after each _reset
\* they equal Vim's values of that moment, and every shift, unshift and
\* ntabs_to_proper_indent until the next _reset computes with them.
C7_SettingsReadAtReset ==
    /\ <<shiftwidth, _tabstop, _expandtab>> = <<atReset.sw, atReset.ts, atReset.et>>
    /\ call.op \in {"__init__", "_reset"} =>
           <<shiftwidth, _tabstop, _expandtab>> =
               <<hostShiftwidth, hostTabstop, hostExpandtab>>
    /\ call.op \in {"shift", "__rshift__"} =>
           indent = pre.indent \o PyMul(<<SP>>, atReset.sw * call.amount)
    /\ call.op \in {"unshift", "__lshift__"} =>
           indent = PySliceTo(pre.indent, -(atReset.sw * call.amount))
    /\ call.op = "ntabs_to_proper_indent" =>
           ret = Str(ntabs_to_proper_indent(call.amount, atReset.sw,
                                            atReset.ts, atReset.et))

C7_Witness ==
    /\ call.op = "shift"
    /\ call.amount > 0
    /\ _cur # <<>>
    /\ indent # pre.indent
    /\ hostShiftwidth # shiftwidth
    /\ hostTabstop # _tabstop
    /\ hostExpandtab # _expandtab

\* C8: unshift(amount) on an indent shorter than amount * shiftwidth leaves
\* indent empty, raises nothing and leaves rv and _changed alone.
C8_UnshiftClamps ==
    (call.op = "unshift" /\ Len(pre.indent) < call.amount * shiftwidth) =>
        /\ indent = <<>>
        /\ ret = None
        /\ _rv = pre.rv
        /\ _changed = pre.changed

C8_Witness ==
    /\ call.op = "unshift"
    /\ Len(pre.indent) > 0
    /\ Len(pre.indent) < call.amount * shiftwidth
    /\ indent = <<>>
    /\ _changed

\* C9: opt(name, default) never lets a failure of Vim through: it returns
\* default when the variable does not exist, when its evaluation fails and
\* when the existence test itself fails, the evaluated value otherwise, and
\* it leaves rv, _changed and indent alone.
C9_OptNeverPropagates ==
    call.op = "opt" =>
        /\ ret.kind # "raise"
        /\ IF /\ ~call.exists.error
              /\ call.exists.val = <<"1">>
              /\ ~call.eval.error
           THEN ret = Str(call.eval.val)
           ELSE ret = call.default
        /\ <<indent, _rv, _changed>> = <<pre.indent, pre.rv, pre.changed>>

\* C10: v returns the (mode, text) pair given to the constructor, and
\* snippet_start and snippet_end return the bounds given to it, after any
\* operations.
C10_SnapshotsExposed ==
    /\ call.op = "v" =>
           ret.val = [mode |-> ctor.vmode, text |-> ctor.vtext]
    /\ call.op = "snippet_start" => ret.val = ctor.start
    /\ call.op = "snippet_end" => ret.val = ctor.end

----------------------------------------------------------------------------
\* The columns an indentation text takes up when every tab moves on to the
\* next multiple of ts, counted from column col.
RECURSIVE VisualWidthFrom(_, _, _)
VisualWidthFrom(x, col, ts) ==
    IF x = <<>> THEN col
    ELSE VisualWidthFrom(Tail(x),
                         IF Head(x) = TAB THEN ((col \div ts) + 1) * ts
                         ELSE col + 1,
                         ts)

VisualWidth(x, ts) == VisualWidthFrom(x, 0, ts)

AllSpaces(x) == \A i \in 1..Len(x) : x[i] = SP

\* C11: indent_to_spaces(x), for x of tabs and spaces and a tab stop >= 1, is
\* made of spaces only and is as long as x is wide when each tab moves on to
\* the next multiple of the tab stop; with tab stop 4 one tab gives 4 spaces,
\* and two spaces and a tab give 4 spaces too.
C11_IndentToSpacesWidth ==
    call.op = "indent_to_spaces" =>
        /\ AllSpaces(ret.val)
        /\ Len(ret.val) = VisualWidth(call.text, _tabstop)
        /\ (_tabstop = 4 /\ call.text \in {<<TAB>>, <<SP, SP, TAB>>}) =>
               ret.val = <<SP, SP, SP, SP>>

C11_Witness ==
    /\ call.op = "indent_to_spaces"
    /\ call.text = <<SP, SP, TAB>>
    /\ _tabstop = 4
    /\ ret.val = <<SP, SP, SP, SP>>

\* C12: spaces_to_indent on m spaces returns them unchanged under expandtab
\* (so the two conversions chained give what indent_to_spaces gives), and
\* m \div tabstop tabs followed by m % tabstop spaces otherwise.
C12_SpacesToIndent ==
    /\ call.op = "spaces_to_indent" =>
           LET m == Len(call.text)
           IN  ret.val = IF _expandtab THEN call.text
                         ELSE PyMul(<<TAB>>, m \div _tabstop)
                              \o PyMul(<<SP>>, m % _tabstop)
    /\ (call.op = "normalize" /\ _expandtab) =>
           ret.val = indent_to_spaces(call.text, _tabstop)

C12_Witness ==
    /\ call.op = "spaces_to_indent"
    /\ ~_expandtab
    /\ _tabstop > 1
    /\ Len(call.text) > 2 * _tabstop
    /\ Len(call.text) % _tabstop # 0
    /\ Len(ret.val) < Len(call.text)

\* C13: the chained conversion leaves its own results alone: applied to what
\* ntabs_to_proper_indent(n) returned, n >= 0, and to what it returned itself
\* for any x of tabs and spaces, it gives the same string back.
C13_NormalizeIdempotent ==
    (\/ call.op = "normalize"
     \/ call.op = "ntabs_to_proper_indent" /\ call.amount >= 0) =>
        normalize(ret.val, _tabstop, _expandtab) = ret.val

C13_Witness ==
    /\ call.op = "normalize"
    /\ ~_expandtab
    /\ _tabstop = 2
    /\ call.text = <<SP, TAB, SP>>
    /\ ret.val = <<TAB, SP>>

\* C17: ntabs_to_proper_indent(n), n >= 0, is n * shiftwidth columns wide:
\* that many spaces under expandtab, otherwise (n * shiftwidth) \div tabstop
\* tabs and (n * shiftwidth) % tabstop spaces; for n < 0 it is empty.
C17_NtabsWidth ==
    call.op = "ntabs_to_proper_indent" =>
        LET w == call.amount * shiftwidth
        IN  IF call.amount < 0 THEN ret.val = <<>>
            ELSE /\ VisualWidth(ret.val, _tabstop) = w
                 /\ ret.val = IF _expandtab THEN PyMul(<<SP>>, w)
                              ELSE PyMul(<<TAB>>, w \div _tabstop)
                                   \o PyMul(<<SP>>, w % _tabstop)

C17_Witness ==
    /\ call.op = "ntabs_to_proper_indent"
    /\ ~_expandtab
    /\ call.amount * shiftwidth > _tabstop
    /\ (call.amount * shiftwidth) % _tabstop # 0
    /\ _tabstop > 1

\* C14: once _changed is true, only _reset makes it false again: no shift,
\* unshift, reset_indent, mkline, assignment to rv, +=, opt or property does.
C14_DirtyUntilReset ==
    (pre.changed /\ call.op \notin {"_reset", "__init__"}) => _changed

C14_Witness ==
    /\ call.op = "rv="
    /\ pre.changed
    /\ pre.rv # <<>>
    /\ call.text = <<>>
    /\ _rv = <<>>
    /\ _changed

\* C15 as stated: shift(amount) makes indent longer by amount * shiftwidth
\* for every integer amount, negative ones included, and for amount >= 0
\* indent is the old indent followed by spaces only.
C15_ShiftLengthSigned ==
    call.op \in {"shift", "__rshift__"} =>
        /\ Len(indent) = Len(pre.indent) + call.amount * shiftwidth
        /\ call.amount >= 0 =>
               indent = pre.indent \o PyMul(<<SP>>, Len(indent) - Len(pre.indent))

\* C15 as amended: shift(amount) makes indent the old indent followed by
\* amount * shiftwidth spaces when amount >= 0, and leaves indent as it is
\* when amount < 0: its length grows by max(amount, 0) * shiftwidth.
C15_ShiftLength ==
    call.op \in {"shift", "__rshift__"} =>
        LET n == IF call.amount >= 0 THEN call.amount * shiftwidth ELSE 0
        IN  /\ Len(indent) = Len(pre.indent) + n
            /\ indent = pre.indent \o PyMul(<<SP>>, n)

C15_Witness ==
    /\ call.op = "shift"
    /\ call.amount < 0
    /\ shiftwidth > 0
    /\ pre.indent # <<>>
    /\ indent = pre.indent

\* C16: after any _reset, shift, unshift and reset_indent, clamping unshifts
\* included, the lengths of indent and _initial_indent differ by a whole
\* number of shift widths, the shift width being the one read at the last
\* _reset.
C16_WholeShiftWidths ==
    \E k \in (-MaxIndent)..MaxIndent :
        Len(indent) - Len(_initial_indent) = k * atReset.sw

C16_Witness ==
    /\ call.op = "unshift"
    /\ atReset.sw >= 2
    /\ Len(pre.indent) > 0
    /\ Len(pre.indent) < call.amount * atReset.sw
    /\ indent = <<>>

\* C18: shift, unshift, reset_indent and mkline leave rv and _changed alone,
\* mkline leaves indent alone too, and an assignment to rv and += leave
\* indent and the three settings alone.
C18_IndentAndOutputApart ==
    [][/\ call'.op \in {"shift", "unshift", "__rshift__", "__lshift__",
                         "reset_indent", "mkline"} =>
              (_rv' = _rv /\ _changed' = _changed)
       /\ call'.op = "mkline" => indent' = indent
       /\ call'.op \in {"rv=", "__add__"} =>
              (/\ indent' = indent
               /\ UNCHANGED <<shiftwidth, _tabstop, _expandtab>>)]_vars

C18_Witness ==
    /\ call.op = "shift"
    /\ indent # pre.indent
    /\ pre.rv # <<>>
    /\ _rv = pre.rv
    /\ _changed = pre.changed

\* C19: unshift(amount), by name or as <<, never raises and never lengthens
\* indent, whatever the sign of amount and for any shift width >= 0: the new
\* indent is a prefix of the old one.
C19_UnshiftGivesPrefix ==
    call.op \in {"unshift", "__lshift__"} =>
        /\ ret = None
        /\ Len(indent) <= Len(pre.indent)
        /\ indent = SubSeq(pre.indent, 1, Len(indent))

C19_Witness ==
    /\ call.op = "__lshift__"
    /\ call.amount < 0
    /\ shiftwidth > 0
    /\ Len(indent) > 0
    /\ Len(indent) < Len(pre.indent)
====
